---- MODULE Spec2Model ----
(***************************************************************************)
(* Model of storages/backends/oracle_object_storage_oci.py:                *)
(*   OracleObjectStorage      the adapter over the OCI object-storage SDK  *)
(*   OracleObjectStorageFile  the lazy, buffer-backed file handle          *)
(* The SDK client is modelled by the state of the service it talks to      *)
(* (does the bucket exist, which objects it holds) and by `trace`, the     *)
(* sequence of SDK calls the last handler made.                            *)
(***************************************************************************)
EXTENDS Integers, Sequences, FiniteSets, TLC

VARIABLES
    settings,       \* Django settings ORACLE_OCI_CONFIG / _PROFILE / _BUCKET
    status,         \* "new": no adapter yet, "ready": __init__ returned, "failed": __init__ raised
    config,         \* self._config: Unset, or the file it was loaded from
    object_storage, \* self._object_storage: Unset (no such attribute yet) or "client"
    bucket,         \* self._bucket
    svcBucket,      \* service side: does the bucket exist
    objects,        \* service side: the bucket, a function from the names present to their content
    h,              \* the OracleObjectStorageFile instance under observation
    hist,           \* history of that handle (observation only)
    saved,          \* names saved and not deleted since -> content of the latest _save (observation only)
    op,             \* the handler that ran last
    arg,            \* what that handler was called with (a name, the content written, the constructor's arguments)
    ret,            \* what it returned
    error,          \* the exception it raised, or NoError
    trace           \* the SDK calls it made, in order

vars == <<settings, status, config, object_storage, bucket, svcBucket, objects,
          h, hist, saved, op, arg, ret, error, trace>>

-----------------------------------------------------------------------------
(* Bounds *)

\* longest byte content written or stored
MaxLen == 1
\* the per-handle call counters saturate here
MaxCount == 3

-----------------------------------------------------------------------------
(* Values *)

None == "None"
NoError == "NoError"
Unset == "Unset"

\* status of the ServiceError that means "bucket not found"
NotFound == 404
\* other statuses head_bucket can fail with
FaultStatuses == {403, 500}

\* byte values: 10 is the newline, 65 any other byte
Bytes == {10, 65}

RECURSIVE SeqsUpTo(_, _)
SeqsUpTo(S, n) ==
    IF n = 0 THEN {<<>>}
    ELSE LET shorter == SeqsUpTo(S, n - 1)
         IN  shorter \cup {Append(s, x) : s \in shorter, x \in S}

Contents == SeqsUpTo(Bytes, MaxLen)

\* object names held by the bucket, in the order the service lists them
NameOrder == << <<1>>, <<1, 1>> >>
Names == {NameOrder[i] : i \in DOMAIN NameOrder}
\* names a caller asks about (also the empty name and names of no object)
QueryNames == SeqsUpTo({1, 2}, 2)

\* file modes, as character sequences
Modes == { <<"r", "b">>, <<"w", "b">>, <<"a", "b">> }

\* read(num_bytes): -1 stands for None (read to the end)
NumBytes == {-1, 1}

ProfileValues == {None, "", "DEFAULT"}
BucketValues == {None, "", "media"}
ConfigValues == {None, "my.cfg"}

Min(a, b) == IF a < b THEN a ELSE b
Bump(c) == IF c < MaxCount THEN c + 1 ELSE c

\* Python truthiness of None / str, and `a or b`
Truthy(x) == x # None /\ x # ""
PyOr(a, b) == IF Truthy(a) THEN a ELSE b

\* one SDK call: the method, the bucket and object name passed, the body sent,
\* and the status of the answer
Call(c, bkt, n, b, st) == [call |-> c, bucket |-> bkt, name |-> n, body |-> b, status |-> st]
GetNamespace == Call("get_namespace", None, <<>>, <<>>, 200)
Count(t, c) == Cardinality({i \in DOMAIN t : t[i].call = c})

\* size: <<>> while the instance has no _size attribute, <<v>> once cached
NoHandle ==
    [made |-> FALSE, name |-> <<>>, mode |-> <<>>, is_dirty |-> FALSE,
     is_read |-> FALSE, file |-> [data |-> <<>>, pos |-> 0, closed |-> FALSE],
     size |-> <<>>]
\* wrote: a write has succeeded; closed: close() has run; wasClosed: close() had
\* run before the last operation; fetchCalls / fetchOk: the _open calls made and
\* the ones that returned; lastWrite: the content of the latest successful write
NoHist ==
    [wrote |-> FALSE, closed |-> FALSE, wasClosed |-> FALSE, fetchCalls |-> 0,
     fetchOk |-> 0, lastWrite |-> <<>>]

-----------------------------------------------------------------------------
(* OracleObjectStorage.__init__ with _connect and _set_bucket *)

\* setting(name): the configured default, None when there is none
setting(name) == settings[name]

\* connection.head_bucket: the status of the answer
HeadBucketStatus(fault) ==
    IF fault # 0 THEN fault
    ELSE IF svcBucket THEN 200 ELSE NotFound

\* _set_bucket creating the bucket whatever head_bucket answered
SetBucket_AlwaysCreate(bkt, fault) ==
    [calls |-> <<GetNamespace, Call("head_bucket", bkt, <<>>, <<>>, HeadBucketStatus(fault)),
                 GetNamespace, Call("create_bucket", bkt, <<>>, <<>>, 200)>>,
     created |-> TRUE, error |-> NoError]

\* _set_bucket: [calls, created, error]
SetBucket(bkt, fault) ==
    LET st == HeadBucketStatus(fault)
        head == <<GetNamespace, Call("head_bucket", bkt, <<>>, <<>>, st)>>
    IN  IF st = 200
        THEN [calls |-> head, created |-> FALSE, error |-> NoError]
        ELSE IF st = NotFound
        THEN [calls |-> head \o <<GetNamespace,
                                   Call("create_bucket", bkt, <<>>, <<>>, 200)>>,
              created |-> TRUE, error |-> NoError]
        \* the except clause ends without re-raising; `response` is unbound
        ELSE [calls |-> head, created |-> FALSE, error |-> "UnboundLocalError"]

\* _connect: the client is created when there is none
Connect(conn) == IF conn = None THEN "client" ELSE conn

\* ConfigError with the bucket check left out
ConfigError_NoBucketCheck(pn, bn) ==
    IF pn = None THEN "ImproperlyConfigured" ELSE NoError

\* the two checks of __init__: the exception raised, or NoError
ConfigError(pn, bn) ==
    IF pn = None THEN "ImproperlyConfigured"
    ELSE IF bn = None THEN "ImproperlyConfigured"
    ELSE NoError

OracleObjectStorageInit(config_file, profile_name, bucket_name, cfgOk, fault) ==
    LET cf == IF config_file = None
              THEN PyOr("~/.oci/config", setting("ORACLE_OCI_CONFIG"))
              ELSE config_file
        pn == PyOr(profile_name, setting("ORACLE_OCI_PROFILE"))
        bn == PyOr(bucket_name, setting("ORACLE_OCI_BUCKET"))
        sb == SetBucket(bn, fault)
    IN  /\ status = "new"
        /\ op' = "__init__"
        /\ arg' = [config_file |-> config_file, profile_name |-> profile_name,
                   bucket_name |-> bucket_name]
        /\ ret' = None
        /\ UNCHANGED <<settings, objects, h, hist, saved>>
        /\ IF ConfigError(pn, bn) # NoError
           THEN /\ error' = ConfigError(pn, bn)
                /\ status' = "failed"
                \* self._bucket is assigned between the two checks
                /\ bucket' = IF pn = None THEN bucket ELSE bn
                /\ trace' = <<>>
                /\ UNCHANGED <<config, object_storage, svcBucket>>
           ELSE IF ~cfgOk
           THEN \* oci.config.from_file raises
                /\ error' = "ConfigFileError"
                /\ status' = "failed"
                /\ bucket' = bn
                /\ trace' = <<>>
                /\ UNCHANGED <<config, object_storage, svcBucket>>
           ELSE /\ bucket' = bn
                /\ config' = cf
                /\ object_storage' = Connect(None)
                /\ trace' = sb.calls
                /\ svcBucket' = (svcBucket \/ sb.created)
                /\ error' = sb.error
                /\ status' = IF sb.error = NoError THEN "ready" ELSE "failed"

Construct ==
    \E config_file \in ConfigValues, profile_name \in ProfileValues,
       bucket_name \in BucketValues, cfgOk \in BOOLEAN, fault \in {0} \cup FaultStatuses :
        OracleObjectStorageInit(config_file, profile_name, bucket_name, cfgOk, fault)

\* __del__ with _disconnect: the adapter object goes away
Del ==
    /\ status \in {"ready", "failed"}
    /\ status' = "new"
    /\ op' = "__del__"
    /\ arg' = <<>>
    /\ ret' = None
    /\ trace' = <<>>
    /\ config' = Unset
    /\ bucket' = Unset
    /\ object_storage' = Unset
    \* self.connection of an adapter that failed before line 33 has no attribute
    /\ error' = IF object_storage = Unset THEN "AttributeError" ELSE NoError
    /\ UNCHANGED <<settings, svcBucket, objects, h, hist, saved>>

-----------------------------------------------------------------------------
(* OracleObjectStorage: the operations on objects *)

Put(f, k, v) == [x \in DOMAIN f \cup {k} |-> IF x = k THEN v ELSE f[x]]
Remove(f, k) == [x \in DOMAIN f \ {k} |-> f[x]]

IsPrefix(p, s) == Len(p) <= Len(s) /\ SubSeq(s, 1, Len(p)) = p

\* connection.list_objects(prefix=...): the objects whose name starts with the
\* prefix, in listing order
ListObjects(prefix) ==
    SelectSeq(NameOrder, LAMBDA n : n \in DOMAIN objects /\ IsPrefix(prefix, n))

\* _get_file_metadata taking the first match whenever there is one
GetFileMetadata_AnyMatch(name) ==
    LET listed == ListObjects(name)
    IN  IF Len(listed) >= 1 THEN <<listed[1]>> ELSE <<>>

\* _get_file_metadata: <<>> stands for None, <<n>> for the summary of object n
GetFileMetadata(name) ==
    LET listed == ListObjects(name)
    IN  IF Len(listed) = 1 THEN <<listed[1]>> ELSE <<>>

\* put_object keeping the object that is already there
PutObject_KeepExisting(name, body) ==
    IF name \in DOMAIN objects THEN objects ELSE Put(objects, name, body)

\* the bucket after connection.put_object
PutObject(name, body) == Put(objects, name, body)

\* storage.size(name): -1 stands for None
StorageSize(name) ==
    LET properties == GetFileMetadata(name)
    IN  IF properties = <<>> THEN -1 ELSE Len(objects[properties[1]])

Done(o, a, r, e, t) ==
    /\ op' = o
    /\ arg' = a
    /\ ret' = r
    /\ error' = e
    /\ trace' = t

Open(name) ==
    /\ status = "ready"
    /\ IF name \in DOMAIN objects
       THEN Done("_open", name, objects[name], NoError,
                 <<GetNamespace, Call("get_object", bucket, name, <<>>, 200)>>)
       ELSE Done("_open", name, None, "ServiceError",
                 <<GetNamespace, Call("get_object", bucket, name, <<>>, NotFound)>>)
    /\ UNCHANGED <<settings, status, config, object_storage, bucket, svcBucket,
                   objects, h, hist, saved>>

Save(name, content) ==
    /\ status = "ready"
    /\ objects' = PutObject(name, content)
    /\ saved' = Put(saved, name, [content |-> content, replaced |-> name \in DOMAIN objects])
    /\ Done("_save", name, name, NoError,
            <<GetNamespace, Call("put_object", bucket, name, content, 200)>>)
    /\ UNCHANGED <<settings, status, config, object_storage, bucket, svcBucket, h, hist>>

\* delete_object of a name the bucket does not hold: the source does not say
\* whether the SDK raises, so both outcomes are allowed
Delete(name, raises) ==
    /\ status = "ready"
    /\ objects' = Remove(objects, name)
    /\ saved' = Remove(saved, name)
    /\ IF name \notin DOMAIN objects /\ raises
       THEN Done("delete", name, None, "ServiceError",
                 <<GetNamespace, Call("delete_object", bucket, name, <<>>, NotFound)>>)
       ELSE Done("delete", name, None, NoError,
                 <<GetNamespace, Call("delete_object", bucket, name, <<>>, 200)>>)
    /\ UNCHANGED <<settings, status, config, object_storage, bucket, svcBucket, h, hist>>

Exists(name) ==
    /\ status = "ready"
    /\ Done("exists", name, GetFileMetadata(name) # <<>>, NoError,
            <<GetNamespace, Call("list_objects", bucket, name, <<>>, 200)>>)
    /\ UNCHANGED <<settings, status, config, object_storage, bucket, svcBucket,
                   objects, h, hist, saved>>

Listdir ==
    /\ status = "ready"
    /\ Done("listdir", <<>>, ListObjects(<<>>), NoError,
            <<GetNamespace, Call("list_objects", bucket, <<>>, <<>>, 200)>>)
    /\ UNCHANGED <<settings, status, config, object_storage, bucket, svcBucket,
                   objects, h, hist, saved>>

Size(name) ==
    /\ status = "ready"
    /\ Done("size", name, StorageSize(name), NoError,
            <<GetNamespace, Call("list_objects", bucket, name, <<>>, 200)>>)
    /\ UNCHANGED <<settings, status, config, object_storage, bucket, svcBucket,
                   objects, h, hist, saved>>

-----------------------------------------------------------------------------
(* OracleObjectStorageFile *)

AdapterUnchanged == UNCHANGED <<settings, status, config, object_storage, bucket, svcBucket>>

\* the mode test taking 'a' for a writing mode too
ModePermitsWrite_AlsoAppend(mode) == \E i \in DOMAIN mode : mode[i] \in {"w", "a"}

\* 'w' in self._mode
ModePermitsWrite(mode) == \E i \in DOMAIN mode : mode[i] = "w"

\* a fresh buffer over the given bytes: io.BytesIO(content), or the stream _open returns
Buffer(data) == [data |-> data, pos |-> 0, closed |-> FALSE]

\* write appending to the buffer
WriteBuffer_Appends(file, content) == Buffer(file.data \o content)

\* self.file = io.BytesIO(content)
WriteBuffer(file, content) == Buffer(content)

\* close saving whether or not the handle is dirty
ShouldSave_Always(handle) == TRUE

\* if self._is_dirty
ShouldSave(handle) == handle.is_dirty

\* file.close(): the buffer is released
Closed == [data |-> <<>>, pos |-> 0, closed |-> TRUE]

\* file.read(num_bytes): num_bytes < 0 stands for None, read to the end
FileRead(file, num_bytes) ==
    LET end == IF num_bytes < 0 THEN Len(file.data)
               ELSE Min(Len(file.data), file.pos + num_bytes)
    IN  [ret |-> SubSeq(file.data, file.pos + 1, end),
         file |-> [file EXCEPT !.pos = end]]

\* the lines of a byte string, each ending with its newline (10) if it has one
RECURSIVE SplitLines(_)
SplitLines(s) ==
    IF s = <<>> THEN <<>>
    ELSE LET ends == {i \in DOMAIN s : s[i] = 10}
             k == IF ends = {} THEN Len(s)
                  ELSE CHOOSE i \in ends : \A j \in ends : i <= j
         IN  <<SubSeq(s, 1, k)>> \o SplitLines(SubSeq(s, k + 1, Len(s)))

\* file.readlines(): the rest of the buffer, as lines
FileReadlines(file) ==
    [ret |-> SplitLines(SubSeq(file.data, file.pos + 1, Len(file.data))),
     file |-> [file EXCEPT !.pos = Len(file.data)]]

\* OracleObjectStorageFile(name, storage, mode); one handle is followed from its
\* creation on
NewHandle(name, mode) ==
    /\ status = "ready"
    /\ ~h.made
    /\ h' = [made |-> TRUE, name |-> name, mode |-> mode, is_dirty |-> FALSE,
             is_read |-> FALSE, file |-> Buffer(<<>>), size |-> <<>>]
    /\ hist' = NoHist
    /\ Done("File.__init__", name, None, NoError, <<>>)
    /\ AdapterUnchanged
    /\ UNCHANGED <<objects, saved>>

Seen == [hist EXCEPT !.wasClosed = hist.closed]

\* the size property
HandleSize ==
    /\ status = "ready"
    /\ h.made
    /\ IF h.size = <<>>
       THEN /\ h' = [h EXCEPT !.size = <<StorageSize(h.name)>>]
            /\ Done("File.size", h.name, StorageSize(h.name), NoError,
                    <<GetNamespace, Call("list_objects", bucket, h.name, <<>>, 200)>>)
       ELSE /\ h' = h
            /\ Done("File.size", h.name, h.size[1], NoError, <<>>)
    /\ hist' = Seen
    /\ AdapterUnchanged
    /\ UNCHANGED <<objects, saved>>

\* Fetch that does not mark the handle read
Fetch_NoMark ==
    IF h.is_read
    THEN [h |-> h, hist |-> Seen, error |-> NoError, calls |-> <<>>]
    ELSE IF h.name \in DOMAIN objects
    THEN [h |-> [h EXCEPT !.file = Buffer(objects[h.name])],
          hist |-> [Seen EXCEPT !.fetchCalls = Bump(hist.fetchCalls),
                                !.fetchOk = Bump(hist.fetchOk)],
          error |-> NoError,
          calls |-> <<GetNamespace, Call("get_object", bucket, h.name, <<>>, 200)>>]
    ELSE [h |-> h,
          hist |-> [Seen EXCEPT !.fetchCalls = Bump(hist.fetchCalls)],
          error |-> "ServiceError",
          calls |-> <<GetNamespace, Call("get_object", bucket, h.name, <<>>, NotFound)>>]

\* the two lines read and readlines share: fetch through storage._open unless
\* the handle is marked read.  [h, hist, error, calls]
Fetch ==
    IF h.is_read
    THEN [h |-> h, hist |-> Seen, error |-> NoError, calls |-> <<>>]
    ELSE IF h.name \in DOMAIN objects
    THEN [h |-> [h EXCEPT !.file = Buffer(objects[h.name]), !.is_read = TRUE],
          hist |-> [Seen EXCEPT !.fetchCalls = Bump(hist.fetchCalls),
                                !.fetchOk = Bump(hist.fetchOk)],
          error |-> NoError,
          calls |-> <<GetNamespace, Call("get_object", bucket, h.name, <<>>, 200)>>]
    ELSE [h |-> h,
          hist |-> [Seen EXCEPT !.fetchCalls = Bump(hist.fetchCalls)],
          error |-> "ServiceError",
          calls |-> <<GetNamespace, Call("get_object", bucket, h.name, <<>>, NotFound)>>]

Read(num_bytes) ==
    LET f == Fetch
        r == FileRead(f.h.file, num_bytes)
    IN  /\ status = "ready"
        /\ h.made
        /\ hist' = f.hist
        /\ IF f.error # NoError
           THEN /\ h' = f.h
                /\ Done("read", h.name, None, f.error, f.calls)
           ELSE IF f.h.file.closed
           THEN /\ h' = f.h
                /\ Done("read", h.name, None, "ValueError", f.calls)
           ELSE /\ h' = [f.h EXCEPT !.file = r.file]
                /\ Done("read", h.name, r.ret, NoError, f.calls)
        /\ AdapterUnchanged
        /\ UNCHANGED <<objects, saved>>

Readlines ==
    LET f == Fetch
        r == FileReadlines(f.h.file)
    IN  /\ status = "ready"
        /\ h.made
        /\ hist' = f.hist
        /\ IF f.error # NoError
           THEN /\ h' = f.h
                /\ Done("readlines", h.name, None, f.error, f.calls)
           ELSE IF f.h.file.closed
           THEN /\ h' = f.h
                /\ Done("readlines", h.name, None, "ValueError", f.calls)
           ELSE /\ h' = [f.h EXCEPT !.file = r.file]
                /\ Done("readlines", h.name, r.ret, NoError, f.calls)
        /\ AdapterUnchanged
        /\ UNCHANGED <<objects, saved>>

Write(content) ==
    /\ status = "ready"
    /\ h.made
    /\ IF ~ModePermitsWrite(h.mode)
       THEN /\ h' = h
            /\ hist' = Seen
            /\ Done("write", content, None, "AttributeError", <<>>)
       ELSE /\ h' = [h EXCEPT !.file = WriteBuffer(h.file, content), !.is_dirty = TRUE,
                               !.is_read = TRUE]
            /\ hist' = [Seen EXCEPT !.wrote = TRUE, !.lastWrite = content]
            /\ Done("write", content, None, NoError, <<>>)
    /\ AdapterUnchanged
    /\ UNCHANGED <<objects, saved>>

\* what put_object uploads when it is handed the handle as the body: the whole
\* buffer if the SDK rewinds it, the unread rest if it reads on from the
\* current position (the source does not decide which).  The call recorded in
\* the trace carries the buffer the handle holds when it is handed over.
Bodies(file) == {file.data, SubSeq(file.data, file.pos + 1, Len(file.data))}

Close ==
    /\ status = "ready"
    /\ h.made
    /\ hist' = [Seen EXCEPT !.closed = TRUE]
    /\ IF ~ShouldSave(h)
       THEN /\ h' = [h EXCEPT !.file = Closed]
            /\ Done("close", h.name, None, NoError, <<>>)
            /\ UNCHANGED <<objects, saved>>
       ELSE IF h.file.closed
       THEN \* _save hands put_object a closed buffer: reading it raises
            /\ h' = h
            /\ Done("close", h.name, None, "ValueError",
                    <<GetNamespace, Call("put_object", bucket, h.name, <<>>, 0)>>)
            /\ UNCHANGED <<objects, saved>>
       ELSE \E body \in Bodies(h.file) :
            /\ objects' = PutObject(h.name, body)
            /\ saved' = Put(saved, h.name,
                            [content |-> body, replaced |-> h.name \in DOMAIN objects])
            /\ h' = [h EXCEPT !.file = Closed]
            /\ Done("close", h.name, None, NoError,
                    <<GetNamespace, Call("put_object", bucket, h.name, h.file.data, 200)>>)
    /\ AdapterUnchanged

-----------------------------------------------------------------------------
(* Specifications *)

SettingNames == {"ORACLE_OCI_CONFIG", "ORACLE_OCI_PROFILE", "ORACLE_OCI_BUCKET"}

\* functions from a subset of the names to contents
Buckets == UNION {[present -> Contents] : present \in SUBSET Names}

\* before any adapter is constructed
InitNew ==
    /\ settings \in {f \in [SettingNames -> ConfigValues \cup ProfileValues \cup BucketValues] :
                        /\ f["ORACLE_OCI_CONFIG"] \in ConfigValues
                        /\ f["ORACLE_OCI_PROFILE"] \in ProfileValues
                        /\ f["ORACLE_OCI_BUCKET"] \in BucketValues}
    /\ status = "new"
    /\ config = Unset
    /\ object_storage = Unset
    /\ bucket = Unset
    /\ svcBucket \in BOOLEAN
    /\ objects = <<>>
    /\ h = NoHandle
    /\ hist = NoHist
    /\ saved = <<>>
    /\ op = "none"
    /\ arg = <<>>
    /\ ret = None
    /\ error = NoError
    /\ trace = <<>>

\* an adapter as OracleObjectStorage(None, "DEFAULT", "media") leaves it, over a
\* bucket of any content
InitReady ==
    /\ settings = [n \in SettingNames |-> None]
    /\ status = "ready"
    /\ config = "~/.oci/config"
    /\ object_storage = "client"
    /\ bucket = "media"
    /\ svcBucket = TRUE
    /\ objects \in Buckets
    /\ h = NoHandle
    /\ hist = NoHist
    /\ saved = <<>>
    /\ op = "none"
    /\ arg = <<>>
    /\ ret = None
    /\ error = NoError
    /\ trace = <<>>

NextInit == Construct \/ Del

NextStore ==
    \/ \E name \in Names : Open(name)
    \/ \E name \in Names, content \in Contents : Save(name, content)
    \/ \E name \in Names, raises \in BOOLEAN : Delete(name, raises)
    \/ \E name \in QueryNames : Exists(name)
    \/ Listdir
    \/ \E name \in QueryNames : Size(name)

NextFile ==
    \/ \E name \in Names, mode \in Modes : NewHandle(name, mode)
    \/ HandleSize
    \/ \E num_bytes \in NumBytes : Read(num_bytes)
    \/ Readlines
    \/ \E content \in Contents : Write(content)
    \/ Close

SpecInit == InitNew /\ [][NextInit]_vars
SpecStore == InitReady /\ [][NextStore]_vars
SpecFile == InitReady /\ [][NextFile]_vars

-----------------------------------------------------------------------------
(* Construction: C5, C6, C7 (under SpecInit) *)

\* a value is missing when it is not passed and no default is configured
Missing(passed, name) == passed = None /\ settings[name] = None
MissingConfiguration ==
    \/ Missing(arg.profile_name, "ORACLE_OCI_PROFILE")
    \/ Missing(arg.bucket_name, "ORACLE_OCI_BUCKET")

\* head_bucket was called and answered with status st
HeadAnswered(st) ==
    \E i \in DOMAIN trace : trace[i].call = "head_bucket" /\ trace[i].status = st
HeadFailedOtherwise ==
    \E i \in DOMAIN trace :
        trace[i].call = "head_bucket" /\ trace[i].status \notin {200, NotFound}

\* C5: constructing the adapter with the profile or the bucket missing raises
\* ImproperlyConfigured, and does so before the configuration is loaded, before
\* the client is created and before any call to the service.
C5_MissingConfigurationFails ==
    (op = "__init__" /\ MissingConfiguration) =>
        /\ error = "ImproperlyConfigured"
        /\ status = "failed"
        /\ trace = <<>>
        /\ object_storage = Unset
        /\ config = Unset

\* the profile is given, the bucket is missing, and the constructor has failed
C5_Witness ==
    /\ op = "__init__"
    /\ arg.profile_name = "DEFAULT"
    /\ Missing(arg.bucket_name, "ORACLE_OCI_BUCKET")
    /\ error = "ImproperlyConfigured"

\* C6: when head_bucket answers not-found, the constructor makes exactly one
\* create_bucket call, for the configured bucket, and returns a connected
\* adapter over a bucket that now exists; when head_bucket answers that the
\* bucket exists, the constructor makes no create_bucket call.
C6_BucketAutoCreation ==
    op = "__init__" =>
        /\ HeadAnswered(NotFound) =>
              /\ Count(trace, "create_bucket") = 1
              /\ \A i \in DOMAIN trace :
                    trace[i].call = "create_bucket" => trace[i].bucket = bucket
              /\ error = NoError
              /\ status = "ready"
              /\ object_storage = "client"
              /\ svcBucket
        /\ HeadAnswered(200) =>
              /\ Count(trace, "create_bucket") = 0
              /\ error = NoError
              /\ status = "ready"
              /\ object_storage = "client"

\* the constructor has returned after creating the bucket "media"
C6_Witness ==
    /\ op = "__init__"
    /\ HeadAnswered(NotFound)
    /\ Count(trace, "create_bucket") = 1
    /\ bucket = "media"
    /\ status = "ready"

\* C7: when head_bucket fails with a status other than 404, the constructor
\* raises that ServiceError and creates no bucket.
C7_ServiceErrorPropagates ==
    (op = "__init__" /\ HeadFailedOtherwise) =>
        /\ error = "ServiceError"
        /\ status = "failed"
        /\ Count(trace, "create_bucket") = 0

\* what does hold in C7's case: no bucket is created and no adapter is returned
C7_NoBucketCreated ==
    (op = "__init__" /\ HeadFailedOtherwise) =>
        /\ status = "failed"
        /\ Count(trace, "create_bucket") = 0


-----------------------------------------------------------------------------
(* The adapter's operations: C1, C2 (under SpecStore) *)

\* C1: _save(name, X) returns name and stores X at name, replacing what was
\* there; _open(name) of a name saved (and not deleted since) succeeds and
\* returns the content of the most recent save to it, the empty content too.
C1_SaveOpenRoundTrip ==
    /\ op = "_save" =>
          /\ ret = arg
          /\ error = NoError
          /\ arg \in DOMAIN objects
          /\ objects[arg] = saved[arg].content
    /\ (op = "_open" /\ arg \in DOMAIN saved) =>
          /\ error = NoError
          /\ ret = saved[arg].content

\* _open has returned the empty content that a save put in place of an
\* existing object
C1_Witness ==
    /\ op = "_open"
    /\ arg \in DOMAIN saved
    /\ saved[arg].replaced
    /\ saved[arg].content = <<>>
    /\ ret = <<>>

\* the objects a prefix listing for name matches
Matching(name) == {n \in DOMAIN objects : IsPrefix(name, n)}

\* C2: exists(name) is true iff exactly one object of the bucket has a name
\* starting with name; it is false when none has and when more than one has.
C2_ExistsIffOneMatch ==
    op = "exists" =>
        /\ ret = (Cardinality(Matching(arg)) = 1)
        /\ Cardinality(Matching(arg)) = 0 => ret = FALSE
        /\ Cardinality(Matching(arg)) > 1 => ret = FALSE

\* exists has answered FALSE for the name of an object the bucket holds,
\* because a second object's name starts with it
C2_Witness ==
    /\ op = "exists"
    /\ arg \in DOMAIN objects
    /\ Cardinality(Matching(arg)) > 1
    /\ ret = FALSE

\* exists has answered TRUE for a name no object has: one longer name matched
C2_PrefixOnlyMatch ==
    /\ op = "exists"
    /\ arg \notin DOMAIN objects
    /\ ret = TRUE


-----------------------------------------------------------------------------
(* The file handle: C3, C4, C8, C9, C10 (under SpecFile) *)

Puts == Count(trace, "put_object")
Gets == Count(trace, "get_object")
HandleOps == {"File.size", "read", "readlines", "write", "close"}

\* the modes that do not permit writing: those without a 'w'
ReadOnly(mode) == "w" \notin {mode[i] : i \in DOMAIN mode}

\* a write() call on a handle whose mode has no 'w' is rejected and changes nothing
RejectedWriteStep ==
    (h.made /\ ReadOnly(h.mode) /\ op' = "write") =>
        /\ error' = "AttributeError"
        /\ h' = h
        /\ objects' = objects
        /\ trace' = <<>>

\* such a handle is never dirty, and its close() makes no put_object call
NeverSaves ==
    (h.made /\ ReadOnly(h.mode)) =>
        /\ ~h.is_dirty
        /\ ~hist.wrote
        /\ op \in HandleOps => Puts = 0

\* C3: on a handle whose mode does not permit writing every write() raises
\* AttributeError, whether or not the handle was read or closed before, and
\* leaves the buffer, the dirty flag and the read flag as they were; a later
\* close() does not call save.
C3_ReadOnlyRejectsWrite == []NeverSaves /\ [][RejectedWriteStep]_vars

\* a write was rejected on a handle that had been read and then closed
C3_Witness ==
    /\ op = "write"
    /\ ReadOnly(h.mode)
    /\ error = "AttributeError"
    /\ h.is_read
    /\ hist.wasClosed
    /\ h.file.closed

\* C4: close() on a handle that is not dirty makes no put_object call, and
\* nothing has been saved through that handle; a put_object call is made only
\* by close(), and only on a handle on which a write has succeeded.
C4_CloseSavesOnlyIfDirty ==
    /\ (op = "close" /\ ~h.is_dirty) => (Puts = 0 /\ saved = <<>>)
    /\ (op \in HandleOps /\ Puts > 0) => (op = "close" /\ hist.wrote)

\* a handle opened for writing was read, never written, and closed without a save
C4_Witness ==
    /\ op = "close"
    /\ ~ReadOnly(h.mode)
    /\ h.is_read
    /\ hist.fetchOk = 1
    /\ ~h.is_dirty
    /\ trace = <<>>

\* a successful write leaves a fresh buffer holding exactly the content written
WriteReplaces ==
    (op = "write" /\ ~ReadOnly(h.mode)) =>
        /\ error = NoError
        /\ h.file = Buffer(arg)
        /\ h.is_dirty
        /\ h.is_read
        /\ hist.lastWrite = arg

\* close() of a written handle that is still open hands the handle to save once
SavingCloseStep ==
    (h.made /\ h.is_dirty /\ ~h.file.closed /\ op' = "close") =>
        /\ error' = NoError
        /\ Count(trace', "put_object") = 1
        /\ \A i \in DOMAIN trace' :
              trace'[i].call = "put_object" =>
                  /\ trace'[i].name = h.name
                  /\ trace'[i].body = hist.lastWrite
        /\ h.file.pos = 0 =>
              /\ h.name \in DOMAIN objects'
              /\ objects'[h.name] = hist.lastWrite

\* C8: on a handle whose mode permits writing, write(content) replaces the
\* buffer by content and marks the handle dirty and read; the close() that
\* follows calls save exactly once, under the handle's name, with the handle
\* holding the content of the most recent write, and (nothing of the buffer
\* having been consumed since that write) the object stored is that content.
C8_WriteThenCloseSaves == []WriteReplaces /\ [][SavingCloseStep]_vars

\* a handle was read, then written, then closed: the object that was there is
\* replaced by the content written last
C8_Witness ==
    /\ op = "close"
    /\ Puts = 1
    /\ hist.fetchOk = 1
    /\ hist.lastWrite = <<65>>
    /\ h.name \in DOMAIN saved
    /\ saved[h.name].replaced
    /\ objects[h.name] = <<65>>

\* the get_object calls of the last operation that returned the object
Fetched == Cardinality({i \in DOMAIN trace :
                           trace[i].call = "get_object" /\ trace[i].status = 200})

\* C9: once close() has run, no later operation on the handle fetches the
\* object, calls save, or leaves the handle with an open buffer.
C9_NoReentryOnceClosed ==
    (op \in HandleOps /\ hist.wasClosed) =>
        /\ Fetched = 0
        /\ Puts = 0
        /\ h.file.closed

\* C10 as stated: creating the handle calls nothing, a read or readlines
\* leaves the handle marked read, and the handle calls _open at most once and
\* never after a write.
C10_FetchesAtMostOnce ==
    /\ op = "File.__init__" => (trace = <<>> /\ ~h.is_read)
    /\ op \in {"read", "readlines"} => h.is_read
    /\ hist.fetchCalls <= 1
    /\ (op \in HandleOps /\ hist.wrote) => Gets = 0

\* creation calls nothing; at most one _open call returns; a failed _open
\* leaves the handle unread; a written handle does not call _open
FetchOnce ==
    /\ op = "File.__init__" => (trace = <<>> /\ ~h.is_read /\ hist.fetchCalls = 0)
    /\ hist.fetchOk <= 1
    /\ (op \in {"read", "readlines"} /\ error # "ServiceError") => h.is_read
    /\ (op \in {"read", "readlines"} /\ error = "ServiceError") =>
          (~h.is_read /\ Gets = 1 /\ h.name \notin DOMAIN objects)
    /\ (op \in HandleOps /\ hist.wrote) => Gets = 0

\* a read or readlines of an unread handle makes one get_object call and, when
\* the object is there, installs its content and marks the handle read; on a
\* handle marked read no operation calls get_object
FetchStep ==
    /\ (h.made /\ ~h.is_read /\ op' \in {"read", "readlines"}) =>
          /\ Count(trace', "get_object") = 1
          /\ h.name \in DOMAIN objects =>
                /\ h'.is_read
                /\ h'.file.data = objects[h.name]
                /\ error' = NoError
    /\ (h.made /\ h.is_read /\ op' \in HandleOps) => Count(trace', "get_object") = 0

\* C10 amended: creating a handle makes no call; a read or readlines on an
\* unread handle makes exactly one _open call, and when that call returns the
\* handle holds the object's content and is marked read; when it fails
\* (the object is absent) the handle stays unread and the next read calls
\* _open again.  At most one _open call of a handle returns, and a handle
\* makes no _open call after one has returned or after a successful write.
C10_FetchesOnceUnlessFetchFails == []FetchOnce /\ [][FetchStep]_vars

\* the first read of a handle has fetched the object and returned its content
C10_Witness ==
    /\ op = "read"
    /\ hist.fetchCalls = 1
    /\ hist.fetchOk = 1
    /\ Gets = 1
    /\ h.is_read
    /\ ~hist.wrote
    /\ ret = <<65>>

====
